---- MODULE Spec2Model ----
(***************************************************************************)
(* The EFS volume driver of docker-volume-netshare                         *)
(* (src/netshare/drivers/efs.go): the mount lifecycle of efsDriver, its    *)
(* mutex, its DNS cache and the reference-counted mount registry it uses.  *)
(*                                                                         *)
(* Strings are sequences of one-character strings, so that strings.Split,  *)
(* strings.Join, fmt.Sprintf and "+" are computed as the code computes     *)
(* them.  Error texts of the collaborators are opaque TLA+ strings.        *)
(***************************************************************************)
EXTENDS Integers, Sequences, FiniteSets, TLC

(* ------------------------------ bounds -------------------------------- *)

\* Number of concurrent request goroutines.
NProcs == 2

\* Total number of Mount/Unmount requests issued in one behaviour.
MaxCalls == 3

\* Largest N of the "N Mounts followed by N Unmounts" scenario.
MaxN == 3

\* Mount/Unmount requests issued beside the Create, Remove and Path calls.
MaxCallsAPI == 3

Procs == 1 .. NProcs

(* ------------------------------ strings ------------------------------- *)

Slash == "/"

\* The volume names requests carry: one without sub-path, one with a
\* sub-path of two segments on another file system.
Names ==
    { <<"v">>, <<"w", "/", "s", "/", "p">> }

\* Addresses net.LookupHost can return as ips[0].
Addrs == { <<"1", ".", "2">> }

\* Constructor arguments and the metadata fetchAWSMetaData supplies.
RootDir == <<"/", "m">>
AzArgs == { <<>>, <<"x", "1">> }
MdAvailZone == <<"z", "1">>
MdRegion == <<"u", "s">>

\* Index of the first "/" of s, 0 when there is none.
RECURSIVE IndexFrom(_, _)
IndexFrom(s, i) ==
    IF i > Len(s) THEN 0
    ELSE IF s[i] = Slash THEN i
    ELSE IndexFrom(s, i + 1)

\* strings.Split(s, "/"): the substrings between the separators; a string
\* without separator (the empty one included) yields one element.
RECURSIVE Split(_)
Split(s) ==
    LET i == IndexFrom(s, 1)
    IN  IF i = 0 THEN << s >>
        ELSE << SubSeq(s, 1, i - 1) >> \o Split(SubSeq(s, i + 1, Len(s)))

\* strings.Join(v, sep).
RECURSIVE Join(_, _)
Join(v, sep) ==
    IF Len(v) = 0 THEN << >>
    ELSE IF Len(v) = 1 THEN v[1]
    ELSE v[1] \o sep \o Join(Tail(v), sep)

\* fmt.Sprintf(EfsTemplateURI, az, fs, reg) with
\* EfsTemplateURI = "%s.%s.efs.%s.amazonaws.com".
EfsTemplateURI(az, fs, reg) ==
    az \o <<".">> \o fs \o <<".", "e", "f", "s", ".">> \o reg
       \o <<".", "a", "m", "a", "z", "o", "n", "a", "w", "s", ".", "c", "o", "m">>

\* mountSuffix(uri) = uri + ":/".
mountSuffix(uri) == uri \o <<":", "/">>

\* mountpoint(root, name): the join of the root directory and the name.
mountpoint(r, name) == r \o <<Slash>> \o name

(* --------------------------- mount registry --------------------------- *)
\* mountManager: a table from mountpoint to [volumeName, refCount].

NewVolumeManager == << >>

HasMount(mm, d) == d \in DOMAIN mm

Count(mm, d) == IF d \in DOMAIN mm THEN mm[d].refCount ELSE 0

AddRecord(mm, d, name) ==
    [ x \in DOMAIN mm \cup {d} |->
        IF x = d
        THEN [ volumeName |-> name,
               refCount |-> IF d \in DOMAIN mm /\ mm[d].refCount > 1
                            THEN mm[d].refCount ELSE 1 ]
        ELSE mm[x] ]

Increment(mm, d) ==
    IF d \in DOMAIN mm
    THEN [ mm EXCEPT ![d].refCount = @ + 1 ]
    ELSE mm

\* Decrement as it would be without the floor at 0.
DecrementNoFloor(mm, d) ==
    IF d \in DOMAIN mm
    THEN [ mm EXCEPT ![d].refCount = @ - 1 ]
    ELSE mm

Decrement(mm, d) ==
    IF d \in DOMAIN mm
    THEN [ mm EXCEPT ![d].refCount = IF @ > 0 THEN @ - 1 ELSE 0 ]
    ELSE mm


(* ------------------------------- state -------------------------------- *)

VARIABLES
    root, availzone, resolve, region,  \* efsDriver fields set by NewEFSDriver
    azArg,          \* the az argument NewEFSDriver was called with
    mountm,         \* efsDriver.mountm: the mount registry
    m,              \* efsDriver.m: TRUE while the mutex is held
    dnscache,       \* efsDriver.dnscache: hostname -> address
    pc, op, rname,  \* per request goroutine: position, handler, r.Name
    dest, source,   \* per request goroutine: the locals dest and source
    resp,           \* per request goroutine: the dkvolume.Response returned
    tr,             \* per request goroutine: what the current request did
    mounted, dirs,  \* the host: stacked mounts per mountpoint, directories
    budget,         \* requests still to be issued
    api,            \* the last Create, Remove or Path call and its response
    scenN           \* N of the N-Mounts-then-N-Unmounts scenario, else 0

cfg == << root, availzone, resolve, region, azArg, scenN >>
host == << mounted, dirs >>
vars ==
    << root, availzone, resolve, region, azArg, mountm, m, dnscache, pc, op,
       rname, dest, source, resp, tr, mounted, dirs, budget, api, scenN >>

\* Finite maps with default 0 / absent.
EmptyMap == [ x \in {} |-> 0 ]
Get(f, k) == IF k \in DOMAIN f THEN f[k] ELSE 0
Put(f, k, v) == [ x \in DOMAIN f \cup {k} |-> IF x = k THEN v ELSE f[x] ]

\* dkvolume.Response{Mountpoint: mp, Err: err}.
Response(mp, err) == [ Mountpoint |-> mp, Err |-> err ]

\* What a request has done so far: the registry as read by its check and as
\* left at its return, the collaborator calls it made, its DNS lookup.
NoTrace ==
    [ entryHas |-> FALSE, entryCount |-> 0, exitHas |-> FALSE, exitCount |-> 0,
      mkdir |-> 0, mount |-> 0, umount |-> 0, rmdir |-> 0,
      lookups |-> 0, dnsFailed |-> FALSE ]

\* The outcomes of net.LookupHost: an error, or addresses of which ips[0]
\* is used.
Lookups ==
    { [ ok |-> FALSE, ip |-> << >> ] } \cup { [ ok |-> TRUE, ip |-> a ] : a \in Addrs }

\* No Create, Remove or Path call yet.
NoCall ==
    [ op |-> "none", name |-> << >>, resp |-> Response(<< >>, ""),
      locked |-> FALSE ]

(* ---------------------------- construction ---------------------------- *)

\* NewEFSDriver(root, az, resolve) with metadata md: the driver's fields.
\* availzone is assigned only when az is empty.
NewEFSDriver(r, az, res) ==
    /\ root = r
    /\ resolve = res
    /\ mountm = NewVolumeManager
    /\ m = FALSE
    /\ dnscache = EmptyMap
    /\ region = MdRegion
    /\ availzone = IF az = << >> THEN MdAvailZone ELSE << >>
    /\ azArg = az

Idle(procs) ==
    /\ pc = [ p \in procs |-> "idle" ]
    /\ op = [ p \in procs |-> "none" ]
    /\ rname = [ p \in procs |-> << >> ]
    /\ dest = [ p \in procs |-> << >> ]
    /\ source = [ p \in procs |-> << >> ]
    /\ resp = [ p \in procs |-> Response(<< >>, "") ]
    /\ tr = [ p \in procs |-> NoTrace ]
    /\ mounted = EmptyMap
    /\ dirs = {}
    /\ api = NoCall

Init ==
    /\ \E az \in AzArgs, res \in BOOLEAN : NewEFSDriver(RootDir, az, res)
    /\ Idle(Procs)
    /\ budget = MaxCalls
    /\ scenN = 0

(* ----------------------------- fixSource ------------------------------ *)

\* The hostname fixSource builds for a name (line 118).
hostname(name) == EfsTemplateURI(availzone, Split(name)[1], region)

\* Lines 119-121: the cache holds the hostname.
resolveHit(uri) ==
    [ source |-> mountSuffix(dnscache[uri]), cache |-> dnscache,
      lookups |-> 0, dnsFailed |-> FALSE ]

\* Lines 124-127: LookupHost succeeded; ips[0] is cached and used.
resolveOK(uri, ip) ==
    [ source |-> mountSuffix(ip), cache |-> Put(dnscache, uri, ip),
      lookups |-> 1, dnsFailed |-> FALSE ]

\* resolveErr as it would be if the fallback were cached like an address.
resolveErrCached(uri) ==
    [ source |-> mountSuffix(uri), cache |-> Put(dnscache, uri, uri),
      lookups |-> 1, dnsFailed |-> TRUE ]

\* Lines 128-131: LookupHost failed; the hostname itself is used.
resolveErr(uri) ==
    [ source |-> mountSuffix(uri), cache |-> dnscache,
      lookups |-> 1, dnsFailed |-> TRUE ]

\* Lines 133-134: v[0] = v[0] + ":"; strings.Join(v, "/").
literalSource(name) ==
    LET v == Split(name)
    IN  Join([ v EXCEPT ![1] = @ \o <<":">> ], << Slash >>)

\* fixSource as it would be without the cache test of line 119: every call
\* looks the hostname up and stores the answer.
fixSourceNoCache(name, lk) ==
    IF resolve
    THEN LET uri == hostname(name)
         IN  IF lk.ok THEN resolveOK(uri, lk.ip)
             ELSE resolveErr(uri)
    ELSE [ source |-> literalSource(name), cache |-> dnscache,
           lookups |-> 0, dnsFailed |-> FALSE ]

\* fixSource(name) when LookupHost, if called, answers lk.
fixSource(name, lk) ==
    IF resolve
    THEN LET uri == hostname(name)
         IN  IF uri \in DOMAIN dnscache THEN resolveHit(uri)
             ELSE IF lk.ok THEN resolveOK(uri, lk.ip)
             ELSE resolveErr(uri)
    ELSE [ source |-> literalSource(name), cache |-> dnscache,
           lookups |-> 0, dnsFailed |-> FALSE ]

(* ------------------------------ the lock ------------------------------ *)

\* Lock as it would be if it did not wait for the mutex.
LockNoWait == m' = TRUE

\* e.m.Lock(): blocks until the mutex is free.
Lock ==
    /\ m = FALSE
    /\ m' = TRUE

\* defer e.m.Unlock().
Unlock == m' = FALSE

\* Return as it would be without the deferred Unlock.
ReturnNoUnlock(p, r, mm, t) ==
    /\ resp' = [ resp EXCEPT ![p] = r ]
    /\ pc' = [ pc EXCEPT ![p] = "done" ]
    /\ m' = m
    /\ mountm' = mm
    /\ tr' = [ tr EXCEPT ![p] =
                 [ t EXCEPT !.exitHas = HasMount(mm, dest[p]),
                            !.exitCount = Count(mm, dest[p]) ] ]

\* A handler returns r: the response is delivered, the deferred Unlock runs.
\* mm is the registry and t the request's trace as the handler leaves them.
Return(p, r, mm, t) ==
    /\ resp' = [ resp EXCEPT ![p] = r ]
    /\ pc' = [ pc EXCEPT ![p] = "done" ]
    /\ Unlock
    /\ mountm' = mm
    /\ tr' = [ tr EXCEPT ![p] =
                 [ t EXCEPT !.exitHas = HasMount(mm, dest[p]),
                            !.exitCount = Count(mm, dest[p]) ] ]

\* The registry as the handler's check reads it.
Entry(p) ==
    [ tr[p] EXCEPT !.entryHas = HasMount(mountm, dest[p]),
                   !.entryCount = Count(mountm, dest[p]) ]

(* ------------------------- requests: shared steps --------------------- *)

\* A request goroutine starts handler h for volume name.
Call(p, h, name) ==
    /\ budget > 0
    /\ pc[p] \in { "idle", "done" }
    /\ budget' = budget - 1
    /\ pc' = [ pc EXCEPT ![p] = "lock" ]
    /\ op' = [ op EXCEPT ![p] = h ]
    /\ rname' = [ rname EXCEPT ![p] = name ]
    /\ dest' = [ dest EXCEPT ![p] = << >> ]
    /\ source' = [ source EXCEPT ![p] = << >> ]
    /\ resp' = [ resp EXCEPT ![p] = Response(<< >>, "") ]
    /\ tr' = [ tr EXCEPT ![p] = NoTrace ]
    /\ UNCHANGED << cfg, api, mountm, m, dnscache, host >>

MountCall(p, name) == Call(p, "Mount", name)

UnmountCall(p, name) == Call(p, "Unmount", name)

\* Lines 63-65 and 88-90: e.m.Lock(); dest := mountpoint(e.root, r.Name).
AcquireLock(p) ==
    /\ pc[p] = "lock"
    /\ Lock
    /\ dest' = [ dest EXCEPT ![p] = mountpoint(root, rname[p]) ]
    /\ pc' = [ pc EXCEPT ![p] = "fix" ]
    /\ UNCHANGED << cfg, api, mountm, dnscache, op, rname, source, resp, tr, host,
                    budget >>

\* Lines 66 and 91: source := e.fixSource(r.Name).
FixSourceStep(p, lk) ==
    /\ pc[p] = "fix"
    /\ LET f == fixSource(rname[p], lk)
       IN  /\ source' = [ source EXCEPT ![p] = f.source ]
           /\ dnscache' = f.cache
           /\ tr' = [ tr EXCEPT ![p].lookups = @ + f.lookups,
                                ![p].dnsFailed = f.dnsFailed ]
    /\ pc' = [ pc EXCEPT ![p] = "check" ]
    /\ UNCHANGED << cfg, api, mountm, m, op, rname, dest, resp, host, budget >>

(* ------------------------------- Mount -------------------------------- *)

\* The reuse condition as it would be if any record, whatever its count,
\* made the request a reuse.
IsReuseOnRecord(d) == HasMount(mountm, d)

\* The reuse condition as it would be with the count compared to 1.
IsReuseOffByOne(d) == HasMount(mountm, d) /\ Count(mountm, d) > 1

\* Line 68: the reuse condition.
IsReuse(d) == HasMount(mountm, d) /\ Count(mountm, d) > 0

\* Lines 68-72: the mountpoint is in use; Increment and return it.
MountReuse(p) ==
    /\ pc[p] = "check" /\ op[p] = "Mount"
    /\ IsReuse(dest[p])
    /\ Return(p, Response(dest[p], ""), Increment(mountm, dest[p]), Entry(p))
    /\ UNCHANGED << cfg, api, dnscache, op, rname, dest, source, host, budget >>

\* MountCreateDest as it would be if the record were added before the
\* directory is created.
MountCreateDestAddFirst(p, ok) ==
    /\ pc[p] = "check" /\ op[p] = "Mount"
    /\ ~ IsReuse(dest[p])
    /\ LET t == [ Entry(p) EXCEPT !.mkdir = @ + 1 ]
           mm == AddRecord(mountm, dest[p], rname[p])
       IN  IF ok
           THEN /\ dirs' = dirs \cup { dest[p] }
                /\ pc' = [ pc EXCEPT ![p] = "mount" ]
                /\ tr' = [ tr EXCEPT ![p] = t ]
                /\ UNCHANGED << mountm, m, resp >>
           ELSE /\ Return(p, Response(<< >>, "mkdir failed"), mm, t)
                /\ UNCHANGED dirs
    /\ UNCHANGED << cfg, api, dnscache, op, rname, dest, source, mounted, budget >>

\* Lines 68 and 76-78: not a reuse; createDest(dest) succeeds or fails.
MountCreateDest(p, ok) ==
    /\ pc[p] = "check" /\ op[p] = "Mount"
    /\ ~ IsReuse(dest[p])
    /\ LET t == [ Entry(p) EXCEPT !.mkdir = @ + 1 ]
       IN  IF ok
           THEN /\ dirs' = dirs \cup { dest[p] }
                /\ pc' = [ pc EXCEPT ![p] = "mount" ]
                /\ tr' = [ tr EXCEPT ![p] = t ]
                /\ UNCHANGED << mountm, m, resp >>
           ELSE /\ Return(p, Response(<< >>, "mkdir failed"), mountm, t)
                /\ UNCHANGED dirs
    /\ UNCHANGED << cfg, api, dnscache, op, rname, dest, source, mounted, budget >>

\* MountVolume as it would be if the record were added before the error of
\* mountVolume is looked at.
MountVolumeAddFirst(p, ok) ==
    /\ pc[p] = "mount"
    /\ LET t == [ tr[p] EXCEPT !.mount = @ + 1 ]
           mm == AddRecord(mountm, dest[p], rname[p])
       IN  IF ok
           THEN /\ mounted' = Put(mounted, dest[p], Get(mounted, dest[p]) + 1)
                /\ pc' = [ pc EXCEPT ![p] = "add" ]
                /\ tr' = [ tr EXCEPT ![p] = t ]
                /\ UNCHANGED << mountm, m, resp >>
           ELSE /\ Return(p, Response(<< >>, "mount failed"), mm, t)
                /\ UNCHANGED mounted
    /\ UNCHANGED << cfg, api, dnscache, op, rname, dest, source, dirs,
                    budget >>

\* Lines 80-82: mountVolume(source, dest, 4) succeeds or fails.
MountVolume(p, ok) ==
    /\ pc[p] = "mount"
    /\ LET t == [ tr[p] EXCEPT !.mount = @ + 1 ]
       IN  IF ok
           THEN /\ mounted' = Put(mounted, dest[p], Get(mounted, dest[p]) + 1)
                /\ pc' = [ pc EXCEPT ![p] = "add" ]
                /\ tr' = [ tr EXCEPT ![p] = t ]
                /\ UNCHANGED << mountm, m, resp >>
           ELSE /\ Return(p, Response(<< >>, "mount failed"), mountm, t)
                /\ UNCHANGED mounted
    /\ UNCHANGED << cfg, api, dnscache, op, rname, dest, source, dirs,
                    budget >>

\* Lines 83-84: e.mountm.Add(dest, r.Name); return the mountpoint.
MountAdd(p) ==
    /\ pc[p] = "add"
    /\ Return(p, Response(dest[p], ""), AddRecord(mountm, dest[p], rname[p]), tr[p])
    /\ UNCHANGED << cfg, api, dnscache, op, rname, dest, source, host, budget >>

(* ------------------------------ Unmount ------------------------------- *)

\* The in-use condition as it would be with the count compared to 0, so
\* that the last consumer skips the unmount too.
IsSharedOffByOne(d) == HasMount(mountm, d) /\ Count(mountm, d) > 0

\* The in-use condition as it would be if it never held, so that the first
\* consumer to leave unmounts.
IsSharedNever(d) == FALSE

\* Line 94: the mountpoint is still in use by other consumers.
IsShared(d) == HasMount(mountm, d) /\ Count(mountm, d) > 1

\* UnmountSkip as it would be if the count were decremented by the skip and
\* again by the statement after the inner if.
UnmountSkipTwice(p) ==
    /\ pc[p] = "check" /\ op[p] = "Unmount"
    /\ IsShared(dest[p])
    /\ Return(p, Response(<< >>, ""),
              Decrement(Decrement(mountm, dest[p]), dest[p]), Entry(p))
    /\ UNCHANGED << cfg, api, dnscache, op, rname, dest, source, host, budget >>

\* Lines 93-98: skip the unmount; Decrement and return success.
UnmountSkip(p) ==
    /\ pc[p] = "check" /\ op[p] = "Unmount"
    /\ IsShared(dest[p])
    /\ Return(p, Response(<< >>, ""), Decrement(mountm, dest[p]), Entry(p))
    /\ UNCHANGED << cfg, api, dnscache, op, rname, dest, source, host, budget >>

\* UnmountLast as it would be if a request that finds no record returned
\* at once, without the physical unmount.
UnmountLastNeedsRecord(p) ==
    /\ pc[p] = "check" /\ op[p] = "Unmount"
    /\ ~ IsShared(dest[p])
    /\ IF HasMount(mountm, dest[p])
       THEN /\ mountm' = Decrement(mountm, dest[p])
            /\ tr' = [ tr EXCEPT ![p] = Entry(p) ]
            /\ pc' = [ pc EXCEPT ![p] = "umount" ]
            /\ UNCHANGED << m, resp >>
       ELSE Return(p, Response(<< >>, ""), mountm, Entry(p))
    /\ UNCHANGED << cfg, api, dnscache, op, rname, dest, source, host, budget >>

\* UnmountLast as it would be if the count were left as found before the
\* physical unmount.
UnmountLastKeepsCount(p) ==
    /\ pc[p] = "check" /\ op[p] = "Unmount"
    /\ ~ IsShared(dest[p])
    /\ mountm' = mountm
    /\ tr' = [ tr EXCEPT ![p] = Entry(p) ]
    /\ pc' = [ pc EXCEPT ![p] = "umount" ]
    /\ UNCHANGED << cfg, api, m, dnscache, op, rname, dest, source, resp, host, budget >>

\* Lines 93 and 99-100: the last consumer (or no record): Decrement when a
\* record exists, and go on to the physical unmount.
UnmountLast(p) ==
    /\ pc[p] = "check" /\ op[p] = "Unmount"
    /\ ~ IsShared(dest[p])
    /\ mountm' = IF HasMount(mountm, dest[p])
                 THEN Decrement(mountm, dest[p]) ELSE mountm
    /\ tr' = [ tr EXCEPT ![p] = Entry(p) ]
    /\ pc' = [ pc EXCEPT ![p] = "umount" ]
    /\ UNCHANGED << cfg, api, m, dnscache, op, rname, dest, source, resp, host, budget >>

\* UnmountRun as it would be if the directory were removed although the
\* umount failed.
UnmountRunRemoveAnyway(p, ok) ==
    /\ pc[p] = "umount"
    /\ LET t == [ tr[p] EXCEPT !.umount = @ + 1 ]
       IN  IF ok
           THEN /\ mounted' = IF Get(mounted, dest[p]) > 0
                              THEN Put(mounted, dest[p], mounted[dest[p]] - 1)
                              ELSE mounted
                /\ pc' = [ pc EXCEPT ![p] = "rmdir" ]
                /\ tr' = [ tr EXCEPT ![p] = t ]
                /\ UNCHANGED << mountm, m, resp, dirs >>
           ELSE /\ Return(p, Response(<< >>, "umount failed"), mountm,
                          [ t EXCEPT !.rmdir = @ + 1 ])
                /\ dirs' = dirs \ { dest[p] }
                /\ UNCHANGED mounted
    /\ UNCHANGED << cfg, api, dnscache, op, rname, dest, source, budget >>

\* Lines 104-106: run("umount <dest>") succeeds or fails.
UnmountRun(p, ok) ==
    /\ pc[p] = "umount"
    /\ LET t == [ tr[p] EXCEPT !.umount = @ + 1 ]
       IN  IF ok
           THEN /\ mounted' = IF Get(mounted, dest[p]) > 0
                              THEN Put(mounted, dest[p], mounted[dest[p]] - 1)
                              ELSE mounted
                /\ pc' = [ pc EXCEPT ![p] = "rmdir" ]
                /\ tr' = [ tr EXCEPT ![p] = t ]
                /\ UNCHANGED << mountm, m, resp >>
           ELSE /\ Return(p, Response(<< >>, "umount failed"), mountm, t)
                /\ UNCHANGED mounted
    /\ UNCHANGED << cfg, api, dnscache, op, rname, dest, source, dirs,
                    budget >>

\* Lines 108-112: os.RemoveAll(dest) succeeds or fails; return.
UnmountRemoveAll(p, ok) ==
    /\ pc[p] = "rmdir"
    /\ LET t == [ tr[p] EXCEPT !.rmdir = @ + 1 ]
       IN  IF ok
           THEN /\ dirs' = dirs \ { dest[p] }
                /\ Return(p, Response(<< >>, ""), mountm, t)
           ELSE /\ Return(p, Response(<< >>, "rmdir failed"), mountm, t)
                /\ UNCHANGED dirs
    /\ UNCHANGED << cfg, api, dnscache, op, rname, dest, source, mounted, budget >>

(* ----------------------- Create, Remove, Path ------------------------ *)
\* The three handlers take no lock and run to their return in one step.
\* api records the call, its response and whether the mutex was held by a
\* Mount or Unmount while it ran.

\* Path as it would be if it took the driver lock like Mount and Unmount.
PathLocked(name) ==
    /\ m = FALSE
    /\ api' = [ op |-> "Path", name |-> name,
                resp |-> Response(mountpoint(root, name), ""), locked |-> m ]
    /\ UNCHANGED << cfg, mountm, m, dnscache, pc, op, rname, dest, source,
                    resp, tr, host, budget >>

\* Lines 48-50: Create returns an empty response.
Create(name) ==
    /\ api' = [ op |-> "Create", name |-> name,
                resp |-> Response(<< >>, ""), locked |-> m ]
    /\ UNCHANGED << cfg, mountm, m, dnscache, pc, op, rname, dest, source,
                    resp, tr, host, budget >>

\* Lines 52-55: Remove returns an empty response.
Remove(name) ==
    /\ api' = [ op |-> "Remove", name |-> name,
                resp |-> Response(<< >>, ""), locked |-> m ]
    /\ UNCHANGED << cfg, mountm, m, dnscache, pc, op, rname, dest, source,
                    resp, tr, host, budget >>

\* Lines 57-60: Path returns mountpoint(e.root, r.Name).
Path(name) ==
    /\ api' = [ op |-> "Path", name |-> name,
                resp |-> Response(mountpoint(root, name), ""), locked |-> m ]
    /\ UNCHANGED << cfg, mountm, m, dnscache, pc, op, rname, dest, source,
                    resp, tr, host, budget >>

(* --------------------------- specification ---------------------------- *)

Next ==
    \/ \E p \in DOMAIN pc, name \in Names : MountCall(p, name)
    \/ \E p \in DOMAIN pc, name \in Names : UnmountCall(p, name)
    \/ \E p \in DOMAIN pc : AcquireLock(p)
    \/ \E p \in DOMAIN pc, lk \in Lookups : FixSourceStep(p, lk)
    \/ \E p \in DOMAIN pc : MountReuse(p)
    \/ \E p \in DOMAIN pc, ok \in BOOLEAN : MountCreateDest(p, ok)
    \/ \E p \in DOMAIN pc, ok \in BOOLEAN : MountVolume(p, ok)
    \/ \E p \in DOMAIN pc : MountAdd(p)
    \/ \E p \in DOMAIN pc : UnmountSkip(p)
    \/ \E p \in DOMAIN pc : UnmountLast(p)
    \/ \E p \in DOMAIN pc, ok \in BOOLEAN : UnmountRun(p, ok)
    \/ \E p \in DOMAIN pc, ok \in BOOLEAN : UnmountRemoveAll(p, ok)

Spec == Init /\ [][Next]_vars

(* ------------- resolving mode with two possible addresses ------------- *)
\* The driver is built with no availability zone argument and resolve set,
\* and net.LookupHost may answer with either of two addresses or with an
\* error, differently on each call.

MaxCallsDns == 3

NamesDns == { <<"v">>, <<"v", "/", "s">> }

AddrsDns == { <<"1", ".", "2">>, <<"3", ".", "4">> }

LookupsDns ==
    { [ ok |-> FALSE, ip |-> << >> ] } \cup { [ ok |-> TRUE, ip |-> a ] : a \in AddrsDns }

InitDns ==
    /\ NewEFSDriver(RootDir, << >>, TRUE)
    /\ Idle(Procs)
    /\ budget = MaxCallsDns
    /\ scenN = 0

NextDns ==
    \/ \E p \in DOMAIN pc, name \in NamesDns : MountCall(p, name)
    \/ \E p \in DOMAIN pc, name \in NamesDns : UnmountCall(p, name)
    \/ \E p \in DOMAIN pc : AcquireLock(p)
    \/ \E p \in DOMAIN pc, lk \in LookupsDns : FixSourceStep(p, lk)
    \/ \E p \in DOMAIN pc : MountReuse(p)
    \/ \E p \in DOMAIN pc, ok \in BOOLEAN : MountCreateDest(p, ok)
    \/ \E p \in DOMAIN pc, ok \in BOOLEAN : MountVolume(p, ok)
    \/ \E p \in DOMAIN pc : MountAdd(p)
    \/ \E p \in DOMAIN pc : UnmountSkip(p)
    \/ \E p \in DOMAIN pc : UnmountLast(p)
    \/ \E p \in DOMAIN pc, ok \in BOOLEAN : UnmountRun(p, ok)
    \/ \E p \in DOMAIN pc, ok \in BOOLEAN : UnmountRemoveAll(p, ok)

SpecDns == InitDns /\ [][NextDns]_vars

(* --------------------------- fair scheduling -------------------------- *)
\* Requests for one volume under a fair scheduler.  Every collaborator call
\* returns, so a request that holds the mutex takes its next step (weak
\* fairness); sync.Mutex hands the mutex to a goroutine that keeps waiting
\* (starvation mode), so a waiting request gets it (strong fairness).

MaxCallsLive == 3

NamesLive == { <<"v">> }

InitLive ==
    /\ \E res \in BOOLEAN : NewEFSDriver(RootDir, << >>, res)
    /\ Idle(Procs)
    /\ budget = MaxCallsLive
    /\ scenN = 0

\* The steps of request p between taking the mutex and returning.
BodyStep(p) ==
    \/ \E lk \in Lookups : FixSourceStep(p, lk)
    \/ MountReuse(p)
    \/ \E ok \in BOOLEAN : MountCreateDest(p, ok)
    \/ \E ok \in BOOLEAN : MountVolume(p, ok)
    \/ MountAdd(p)
    \/ UnmountSkip(p)
    \/ UnmountLast(p)
    \/ \E ok \in BOOLEAN : UnmountRun(p, ok)
    \/ \E ok \in BOOLEAN : UnmountRemoveAll(p, ok)

NextLive ==
    \/ \E p \in DOMAIN pc, name \in NamesLive : MountCall(p, name)
    \/ \E p \in DOMAIN pc, name \in NamesLive : UnmountCall(p, name)
    \/ \E p \in DOMAIN pc : AcquireLock(p)
    \/ \E p \in DOMAIN pc : BodyStep(p)

Fairness ==
    \A p \in Procs : SF_vars(AcquireLock(p)) /\ WF_vars(BodyStep(p))

SpecLive == InitLive /\ [][NextLive]_vars /\ Fairness

(* ------------- N Mounts followed by N Unmounts of one volume ---------- *)
\* One goroutine per request: goroutines 1..N mount, N+1..2N unmount, and
\* no Unmount is issued before every Mount has returned.  Every collaborator
\* call succeeds.

Mounters == 1 .. scenN
Unmounters == (scenN + 1) .. (2 * scenN)

InitN ==
    /\ \E az \in AzArgs, res \in BOOLEAN : NewEFSDriver(RootDir, az, res)
    /\ scenN \in 1 .. MaxN
    /\ Idle(1 .. (2 * scenN))
    /\ budget = 2 * scenN

ScenMount(p, name) ==
    /\ p \in Mounters
    /\ pc[p] = "idle"
    /\ \A q \in Mounters : rname[q] \in { << >>, name }
    /\ MountCall(p, name)

ScenUnmount(p) ==
    /\ p \in Unmounters
    /\ pc[p] = "idle"
    /\ \A q \in Mounters : pc[q] = "done"
    /\ UnmountCall(p, rname[1])

NextN ==
    \/ \E p \in DOMAIN pc, name \in Names : ScenMount(p, name)
    \/ \E p \in DOMAIN pc : ScenUnmount(p)
    \/ \E p \in DOMAIN pc : AcquireLock(p)
    \/ \E p \in DOMAIN pc, a \in Addrs : FixSourceStep(p, [ ok |-> TRUE, ip |-> a ])
    \/ \E p \in DOMAIN pc : MountReuse(p)
    \/ \E p \in DOMAIN pc : MountCreateDest(p, TRUE)
    \/ \E p \in DOMAIN pc : MountVolume(p, TRUE)
    \/ \E p \in DOMAIN pc : MountAdd(p)
    \/ \E p \in DOMAIN pc : UnmountSkip(p)
    \/ \E p \in DOMAIN pc : UnmountLast(p)
    \/ \E p \in DOMAIN pc : UnmountRun(p, TRUE)
    \/ \E p \in DOMAIN pc : UnmountRemoveAll(p, TRUE)

SpecN == InitN /\ [][NextN]_vars

(* ------------------- all five handlers of the driver ------------------ *)

InitAPI ==
    /\ \E res \in BOOLEAN : NewEFSDriver(RootDir, << >>, res)
    /\ Idle(Procs)
    /\ budget = MaxCallsAPI
    /\ scenN = 0

NextAPI ==
    \/ NextLive
    \/ \E name \in Names : Create(name)
    \/ \E name \in Names : Remove(name)
    \/ \E name \in Names : Path(name)

SpecAPI == InitAPI /\ [][NextAPI]_vars

(* ------------------------------ properties ---------------------------- *)

\* The request of p is between lock acquisition and return.
InBody(p) == pc[p] \in { "fix", "check", "mount", "add", "umount", "rmdir" }

\* The request of p has computed its source.
PastFix(p) == pc[p] \in { "check", "mount", "add", "umount", "rmdir", "done" }

\* The request of p has returned.
Done(p, h) == pc[p] = "done" /\ op[p] = h

\* The first path segment of a name and what follows its first "/".
FirstSegment(name) ==
    LET i == IndexFrom(name, 1)
    IN  IF i = 0 THEN name ELSE SubSeq(name, 1, i - 1)

RemainingSegments(name) ==
    LET i == IndexFrom(name, 1)
    IN  IF i = 0 THEN << >> ELSE SubSeq(name, i + 1, Len(name))

\* C1: when N concurrent Mounts of one volume, followed by N Unmounts of
\* it, have all returned (every collaborator call succeeding), exactly one
\* request has made the one physical mount call, exactly one the one
\* physical unmount call, and the registry holds no record or a record with
\* refCount 0 for the mountpoint.
ThmC1 ==
    (scenN > 0 /\ \A p \in DOMAIN pc : pc[p] = "done")
        => /\ \A p \in DOMAIN pc : tr[p].mount <= 1 /\ tr[p].umount <= 1
           /\ Cardinality({ p \in DOMAIN pc : tr[p].mount = 1 }) = 1
           /\ Cardinality({ p \in DOMAIN pc : tr[p].umount = 1 }) = 1
           /\ \A p \in DOMAIN pc : resp[p].Err = ""
           /\ \A p \in DOMAIN pc : Count(mountm, dest[p]) = 0

WitC1 ==
    /\ scenN = MaxN
    /\ \A p \in DOMAIN pc : pc[p] = "done"
    /\ HasMount(mountm, dest[1])

\* C2: an Unmount that finds Count > 1 decrements the count by one, returns
\* success and makes no physical unmount and no directory removal; a
\* request that has made a physical unmount found Count <= 1 and made only
\* one; an Unmount that finds Count = 1 makes exactly one physical unmount.
ThmC2 ==
    \A p \in DOMAIN pc :
        /\ tr[p].umount <= 1
        /\ tr[p].umount = 1 => tr[p].entryCount <= 1
        /\ Done(p, "Unmount") /\ tr[p].entryCount > 1
              => /\ tr[p].exitCount = tr[p].entryCount - 1
                 /\ resp[p] = Response(<< >>, "")
                 /\ tr[p].umount = 0
                 /\ tr[p].rmdir = 0
        /\ Done(p, "Unmount") /\ tr[p].entryCount = 1
              => tr[p].umount = 1 /\ tr[p].exitCount = 0

WitC2 ==
    \E p \in DOMAIN pc :
        /\ Done(p, "Unmount")
        /\ tr[p].entryCount = 2
        /\ tr[p].exitCount = 1
        /\ tr[p].umount = 0

\* C3: a Mount that finds a record with refCount >= 1 creates no directory,
\* makes no physical mount call, leaves the count one higher and returns
\* the mountpoint every other successful Mount of that volume returned.
ThmC3 ==
    \A p \in DOMAIN pc :
        Done(p, "Mount") /\ tr[p].entryHas /\ tr[p].entryCount >= 1
            => /\ tr[p].mkdir = 0
               /\ tr[p].mount = 0
               /\ tr[p].exitCount = tr[p].entryCount + 1
               /\ resp[p].Err = ""
               /\ resp[p].Mountpoint # << >>
               /\ \A q \in DOMAIN pc :
                     Done(q, "Mount") /\ rname[q] = rname[p] /\ resp[q].Err = ""
                         => resp[q].Mountpoint = resp[p].Mountpoint

WitC3 ==
    \E p, q \in DOMAIN pc :
        /\ Done(q, "Mount") /\ tr[q].mount = 1 /\ resp[q].Err = ""
        /\ Done(p, "Mount") /\ tr[p].entryCount = 1 /\ tr[p].exitCount = 2
        /\ rname[p] = rname[q]

\* C4 as stated: a Mount whose physical mount call fails leaves no registry
\* record for its mountpoint.
CexC4 ==
    \A p \in DOMAIN pc :
        Done(p, "Mount") /\ resp[p].Err = "mount failed" => ~ tr[p].exitHas

\* C4 as amended: a Mount whose physical mount call fails leaves the
\* registry as it found it, with no record or a record with refCount 0 for
\* its mountpoint; and a Mount that finds no record or refCount 0 is treated
\* as fresh: it creates the directory and, unless that fails, makes the
\* physical mount call.
ThmC4 ==
    \A p \in DOMAIN pc :
        /\ Done(p, "Mount") /\ resp[p].Err = "mount failed"
              => /\ tr[p].exitHas = tr[p].entryHas
                 /\ tr[p].exitCount = tr[p].entryCount
                 /\ tr[p].exitCount = 0
        /\ Done(p, "Mount") /\ tr[p].entryCount = 0
              => /\ tr[p].mkdir = 1
                 /\ resp[p].Err # "mkdir failed" => tr[p].mount = 1

WitC4 ==
    \E p \in DOMAIN pc :
        /\ Done(p, "Mount") /\ resp[p].Err = "mount failed"
        /\ tr[p].entryHas /\ tr[p].exitHas /\ tr[p].exitCount = 0

\* C5: at most one request is between lock acquisition and return, whatever
\* the mountpoints, and the mutex is held exactly while one is.
ThmC5 ==
    /\ Cardinality({ p \in DOMAIN pc : InBody(p) }) <= 1
    /\ m = (\E p \in DOMAIN pc : InBody(p))

WitC5 ==
    \E p, q \in DOMAIN pc :
        /\ pc[p] = "mount"
        /\ pc[q] = "lock"
        /\ rname[p] # rname[q]

\* C6: the refCount of every registry record is >= 0.
ThmC6 == \A d \in DOMAIN mountm : mountm[d].refCount >= 0

WitC6 ==
    \E p \in DOMAIN pc :
        /\ Done(p, "Unmount")
        /\ tr[p].entryHas /\ tr[p].entryCount = 0
        /\ tr[p].exitHas /\ tr[p].exitCount = 0

\* C7: in resolving mode the hostname built for a name is
\* <availzone>.<first segment>.efs.<region>.amazonaws.com, and when it
\* resolves to address a the source is a, then ":/", then the remaining
\* segments of the name.
CexC7 ==
    \A p \in DOMAIN pc :
        resolve /\ PastFix(p) /\ ~ tr[p].dnsFailed
            => LET uri == availzone \o <<".">> \o FirstSegment(rname[p])
                            \o <<".", "e", "f", "s", ".">> \o region
                            \o <<".", "a", "m", "a", "z", "o", "n", "a", "w",
                                 "s", ".", "c", "o", "m">>
               IN  /\ uri \in DOMAIN dnscache
                   /\ source[p] = dnscache[uri] \o <<":", "/">>
                                     \o RemainingSegments(rname[p])

\* C8: in non-resolving mode the source is the first segment of the name,
\* then ":/", then its remaining segments, for names with and without "/";
\* no resolution call is made and the DNS cache stays empty.
CexC8 ==
    \A p \in DOMAIN pc :
        ~ resolve /\ PastFix(p)
            => /\ source[p] = FirstSegment(rname[p]) \o <<":", "/">>
                                 \o RemainingSegments(rname[p])
               /\ tr[p].lookups = 0
               /\ DOMAIN dnscache = {}

\* C9: a request whose hostname resolution failed made that one resolution
\* call only, uses the hostname followed by ":/" as its source, wrote no
\* cache entry for the hostname, goes on to its physical step (unless the
\* mountpoint is reused or shared) and answers with no error or with the
\* error of a physical step.
ThmC9 ==
    \A p \in DOMAIN pc :
        tr[p].dnsFailed
            => /\ resolve
               /\ tr[p].lookups = 1
               /\ source[p] = hostname(rname[p]) \o <<":", "/">>
               /\ InBody(p) => hostname(rname[p]) \notin DOMAIN dnscache
               /\ Done(p, "Mount") /\ tr[p].entryCount = 0 => tr[p].mkdir = 1
               /\ Done(p, "Mount") /\ tr[p].entryCount = 0
                     /\ resp[p].Err # "mkdir failed" => tr[p].mount = 1
               /\ Done(p, "Unmount") /\ tr[p].entryCount <= 1 => tr[p].umount = 1
               /\ resp[p].Err = "mkdir failed" => tr[p].mkdir = 1 /\ tr[p].mount = 0
               /\ resp[p].Err = "mount failed" => tr[p].mount = 1
               /\ resp[p].Err = "umount failed" => tr[p].umount = 1 /\ tr[p].rmdir = 0
               /\ resp[p].Err = "rmdir failed" => tr[p].rmdir = 1
               /\ resp[p].Err \in { "", "mkdir failed", "mount failed",
                                    "umount failed", "rmdir failed" }

WitC9 ==
    \E p \in DOMAIN pc :
        /\ tr[p].dnsFailed
        /\ Done(p, "Mount")
        /\ tr[p].mount = 1
        /\ resp[p] = Response(dest[p], "")

\* C10: a non-empty availability-zone argument is the driver's zone, an
\* empty one selects the zone of the metadata, and zone, region, root and
\* resolving flag are those of the construction.
CexC10 ==
    /\ azArg # << >> => availzone = azArg
    /\ azArg = << >> => availzone = MdAvailZone
    /\ region = MdRegion
    /\ root = RootDir


\* C11: Create, Remove and Path can run in every state, also while a Mount
\* or Unmount holds the lock; they answer without error; a step of theirs
\* leaves the registry, the DNS cache, the mutex, the requests and the host
\* unchanged; Path answers the join of root and name, the mountpoint a
\* Mount of that name returns.
ThmC11 ==
    /\ [](/\ \A name \in Names :
                ENABLED Create(name) /\ ENABLED Remove(name) /\ ENABLED Path(name)
          /\ api.resp.Err = ""
          /\ api.op \in { "Create", "Remove" } => api.resp.Mountpoint = << >>
          /\ api.op = "Path" => api.resp.Mountpoint = root \o <<"/">> \o api.name
          /\ \A p \in Procs :
                Done(p, "Mount") /\ resp[p].Err = "" /\ api.op = "Path"
                   /\ api.name = rname[p]
                    => api.resp.Mountpoint = resp[p].Mountpoint)
    /\ [][api' # api =>
            UNCHANGED << mountm, m, dnscache, mounted, dirs, pc, resp, cfg >>]_vars

WitC11 ==
    /\ api.op = "Path"
    /\ api.locked
    /\ \E p \in DOMAIN pc :
          /\ Done(p, "Mount") /\ resp[p].Err = "" /\ rname[p] = api.name
          /\ tr[p].mount = 1


\* The request of p returns in this step with error text e.
Fails(p, e) == pc[p] # "done" /\ pc'[p] = "done" /\ resp'[p].Err = e

\* C12: a Mount that is not a reuse and whose directory creation fails makes
\* no physical mount call and answers with the directory-creation error;
\* the registry after the call is the registry before it.
ThmC12 ==
    /\ [](\A p \in Procs :
            /\ Done(p, "Mount") /\ resp[p].Err = "mkdir failed"
                  => /\ tr[p].mkdir = 1
                     /\ tr[p].mount = 0
                     /\ resp[p].Mountpoint = << >>
                     /\ tr[p].exitHas = tr[p].entryHas
                     /\ tr[p].exitCount = tr[p].entryCount
            /\ Done(p, "Mount") /\ tr[p].mkdir = 1 /\ tr[p].mount = 0
                  => resp[p].Err = "mkdir failed")
    /\ [][\A p \in Procs :
            pc[p] = "check" /\ Fails(p, "mkdir failed")
                => UNCHANGED << mountm, mounted, dirs >>]_vars

WitC12 ==
    \E p \in DOMAIN pc :
        /\ Done(p, "Mount") /\ resp[p].Err = "mkdir failed"
        /\ tr[p].entryHas /\ tr[p].exitHas /\ tr[p].exitCount = 0

\* C13: an Unmount whose physical unmount fails answers with that error
\* and attempts no directory removal; one whose unmount succeeds and whose
\* directory removal fails answers with the removal error; a request makes
\* each of the two calls at most once.
ThmC13 ==
    \A p \in DOMAIN pc :
        /\ tr[p].umount <= 1 /\ tr[p].rmdir <= 1
        /\ tr[p].rmdir <= tr[p].umount
        /\ Done(p, "Unmount") /\ tr[p].umount = 1 /\ tr[p].rmdir = 0
              <=> Done(p, "Unmount") /\ resp[p].Err = "umount failed"
        /\ Done(p, "Unmount") /\ resp[p].Err = "rmdir failed"
              => tr[p].umount = 1 /\ tr[p].rmdir = 1
        /\ Done(p, "Unmount") /\ tr[p].rmdir = 1
              => resp[p].Err \in { "", "rmdir failed" }

WitC13 ==
    \E p, q \in DOMAIN pc :
        /\ Done(p, "Unmount") /\ resp[p].Err = "umount failed"
        /\ Done(q, "Unmount") /\ resp[q].Err = "rmdir failed"


\* C14: when no Mount or Unmount is executing, every mountpoint that is
\* physically mounted has a record with refCount >= 1, and no mountpoint
\* carries a second physical mount on top of a first.
CexC14 ==
    /\ (\A p \in DOMAIN pc : ~ InBody(p))
          => \A d \in DOMAIN mounted :
                mounted[d] >= 1 => Count(mountm, d) >= 1
    /\ \A d \in DOMAIN mounted : mounted[d] <= 1

\* C15: an Unmount that finds a record with refCount c leaves it with
\* refCount max(c - 1, 0), on the skip path, after a successful and after
\* a failed physical unmount; from its decrement to its return the count
\* is that value.
ThmC15 ==
    \A p \in DOMAIN pc :
        LET c == tr[p].entryCount
            after == IF c >= 1 THEN c - 1 ELSE 0
        IN  /\ Done(p, "Unmount") /\ tr[p].entryHas
                  => tr[p].exitHas /\ tr[p].exitCount = after
            /\ op[p] = "Unmount" /\ pc[p] \in { "umount", "rmdir" }
                  /\ tr[p].entryHas
                  => Count(mountm, dest[p]) = after

WitC15 ==
    \E p \in DOMAIN pc :
        /\ Done(p, "Unmount") /\ resp[p].Err = "umount failed"
        /\ tr[p].entryHas /\ tr[p].entryCount = 1
        /\ tr[p].exitHas /\ tr[p].exitCount = 0

\* C16: a successful Mount that finds the record of its mountpoint with
\* refCount 0 creates the directory once, mounts once and leaves the record
\* with refCount 1; an Unmount that finds refCount 1 runs the physical
\* unmount once.
ThmC16 ==
    \A p \in DOMAIN pc :
        /\ Done(p, "Mount") /\ tr[p].entryHas /\ tr[p].entryCount = 0
              /\ resp[p].Err = ""
              => /\ tr[p].mkdir = 1 /\ tr[p].mount = 1
                 /\ tr[p].exitHas /\ tr[p].exitCount = 1
                 /\ resp[p].Mountpoint = dest[p]
        /\ Done(p, "Unmount") /\ tr[p].entryHas /\ tr[p].entryCount = 1
              => tr[p].umount = 1 /\ tr[p].exitCount = 0

WitC16 ==
    \E p \in DOMAIN pc :
        /\ Done(p, "Mount") /\ resp[p].Err = ""
        /\ tr[p].entryHas /\ tr[p].entryCount = 0
        /\ tr[p].mount = 1 /\ tr[p].exitCount = 1
        /\ Get(mounted, dest[p]) = 1

\* The steps of an Unmount that found no record of its mountpoint leave the
\* registry as it is.
NoRecordFrame ==
    \A p \in DOMAIN pc :
        /\ op[p] = "Unmount" /\ pc[p] \in { "check", "umount", "rmdir" }
        /\ ~ HasMount(mountm, dest[p])
        /\ pc'[p] # pc[p]
        => mountm' = mountm

\* C18: an Unmount that finds no record of its mountpoint runs the physical
\* unmount once and, unless that fails, the directory removal once; it
\* leaves no record for the mountpoint and changes no other record.
ThmC18 ==
    /\ [](\A p \in Procs :
            Done(p, "Unmount") /\ ~ tr[p].entryHas
                => /\ tr[p].umount = 1
                   /\ resp[p].Err # "umount failed" => tr[p].rmdir = 1
                   /\ resp[p].Err = "umount failed" => tr[p].rmdir = 0
                   /\ ~ tr[p].exitHas)
    /\ [][NoRecordFrame]_vars

WitC18 ==
    \E p \in DOMAIN pc :
        /\ Done(p, "Unmount") /\ ~ tr[p].entryHas
        /\ tr[p].umount = 1 /\ tr[p].rmdir = 1 /\ resp[p].Err = ""
        /\ \E d \in DOMAIN mountm : d # dest[p] /\ mountm[d].refCount = 1

\* C19: a record with refCount >= 1 belongs to a physically mounted
\* mountpoint.
ThmC19 ==
    \A d \in DOMAIN mountm :
        mountm[d].refCount >= 1 => Get(mounted, d) >= 1

WitC19 ==
    \E p \in DOMAIN pc :
        /\ op[p] = "Unmount" /\ pc[p] = "umount"
        /\ tr[p].entryCount = 1
        /\ Count(mountm, dest[p]) = 0 /\ Get(mounted, dest[p]) = 1
        /\ \E d \in DOMAIN mountm : d # dest[p] /\ mountm[d].refCount >= 1

\* Every entry of the DNS cache is still there, unchanged, after the step.
CacheKept ==
    \A u \in DOMAIN dnscache :
        u \in DOMAIN dnscache' /\ dnscache'[u] = dnscache[u]

\* A step that changes the DNS cache is the fixSource call of a request that
\* holds the mutex.
CacheWrittenLocked ==
    dnscache' # dnscache
        => m /\ \E p \in Procs : pc[p] = "fix" /\ pc'[p] = "check"

\* A fixSource call that finds its hostname cached makes no lookup and
\* builds the source from the cached address.
CacheHitUsed ==
    \A p \in Procs :
        /\ pc[p] = "fix" /\ pc'[p] = "check"
        /\ hostname(rname[p]) \in DOMAIN dnscache
        => /\ tr'[p].lookups = 0
           /\ source'[p] = mountSuffix(dnscache[hostname(rname[p])])

\* C17: in resolving mode a DNS cache entry is never changed or removed,
\* a request whose hostname is cached makes no lookup and uses the cached
\* address, and the cache is written only by the request holding the mutex.
ThmC17 ==
    /\ [][CacheKept]_vars
    /\ [][CacheWrittenLocked]_vars
    /\ [][CacheHitUsed]_vars
    /\ [](\A p \in Procs :
            PastFix(p) /\ ~ tr[p].dnsFailed
                => /\ hostname(rname[p]) \in DOMAIN dnscache
                   /\ source[p] = mountSuffix(dnscache[hostname(rname[p])]))

WitC17 ==
    \E p, q \in DOMAIN pc :
        /\ p # q /\ resolve
        /\ PastFix(p) /\ tr[p].lookups = 1 /\ ~ tr[p].dnsFailed
        /\ PastFix(q) /\ tr[q].lookups = 0 /\ op[q] = "Unmount"
        /\ rname[q] # rname[p] /\ source[q] = source[p]

\* A step in which a request returns leaves the mutex free.
ReturnUnlocks ==
    \A p \in Procs : pc[p] # "done" /\ pc'[p] = "done" => m /\ ~ m'

\* C20: every return of Mount and Unmount releases the mutex, the mutex is
\* free whenever no request is between Lock and return, and under fair
\* scheduling every request that waits for the mutex completes.
ThmC20 ==
    /\ [][ReturnUnlocks]_vars
    /\ []((\A p \in Procs : ~ InBody(p)) => ~ m)
    /\ \A p \in Procs : (pc[p] = "lock") ~> (pc[p] = "done")

WitC20 ==
    \E p, q \in DOMAIN pc :
        /\ p # q
        /\ pc[p] = "done" /\ resp[p].Err = "mount failed"
        /\ pc[q] = "done" /\ resp[q].Err = "umount failed"
        /\ ~ m

====
